---------------------------- MODULE Spec2Model ----------------------------
(***************************************************************************)
(* State-machine model of three command handlers of the hub/gh command     *)
(* line wrapper:                                                           *)
(*   - release show / release create  (commands/release.go)                *)
(*   - remote                         (commands/remote.go)                 *)
(*   - help                           (commands/help.go)                   *)
(* One run of the process dispatches exactly one handler.  The handler's   *)
(* position is pc; the external collaborators (local repository, hosting   *)
(* API client, editor, file reader, git) are recorded in the log `calls`,  *)
(* everything printed in the log `out`.                                    *)
(*                                                                         *)
(* Text that the code takes apart (asset values, messages) is a sequence   *)
(* of one-character strings; tokens that are only compared are strings.    *)
(***************************************************************************)
EXTENDS Integers, Sequences, FiniteSets

VARIABLES
    handler,                \* the Command.Run that was dispatched
    pc,                     \* position inside the handler
    exitStatus,             \* status given to os.Exit, meaningful when pc = "exited"
    args0,                  \* the Args container as the handler received it
    args,                   \* the Args container (mutated in place)
    noop,                   \* args.Noop
    flagReleaseShowDownloads,
    flagReleaseDraft,
    flagReleasePrerelease,
    flagReleaseMessage,
    flagReleaseFile,
    flagReleaseCommitish,
    flagReleaseAssets,
    Branching, Remote, GitHub,   \* the registry's category lists
    tagName, commitish, title, body,
    editor,                 \* createRelease's function-level `var editor *github.Editor`
    editorFile,             \* the message file of the Editor made by github.NewEditor
    release,                \* createRelease's `var release *github.Release`
    deferred,               \* createRelease's stack of deferred calls
    idx,                    \* uploadAssets' position in the range over assets
    calls,                  \* collaborator calls, in order
    out                     \* what was printed, in order

inputs == <<handler, args0, noop, flagReleaseShowDownloads, flagReleaseDraft,
            flagReleasePrerelease, flagReleaseMessage, flagReleaseFile,
            flagReleaseCommitish, flagReleaseAssets, Branching, Remote, GitHub>>

locals == <<tagName, commitish, title, body, editor, editorFile, release,
            deferred, idx>>

vars == <<inputs, locals, pc, exitStatus, args, calls, out>>

----------------------------------------------------------------------------
(* Bounds of the model *)

MaxAssets == 2
MaxArgs == 3
MaxPerCategory == 2

----------------------------------------------------------------------------
(* Text *)

NL == "\n"
EmptyText == <<>>

SeqsUpTo(S, n) == UNION {[1..k -> S] : k \in 0..n}

\* position of the first c in s, 0 when there is none
FirstIndex(s, c) ==
    IF \E i \in 1..Len(s) : s[i] = c
    THEN CHOOSE i \in 1..Len(s) : s[i] = c /\ \A j \in 1..(i-1) : s[j] # c
    ELSE 0

\* strings.SplitN(s, sep, 2)
SplitN2(s, sep) ==
    LET i == FirstIndex(s, sep)
    IN  IF i = 0 THEN <<s>>
        ELSE <<SubSeq(s, 1, i-1), SubSeq(s, i+1, Len(s))>>

----------------------------------------------------------------------------
(* Exit statuses *)

ExitSuccess == 0        \* os.Exit(0)
UsageExitStatus == 2    \* os.Exit(2)
LogFatalStatus == 1     \* log.Fatal: prints to standard error, then os.Exit(1)
CheckExitStatus == 1    \* utils.Check on a non-nil error

----------------------------------------------------------------------------
(* The Args container *)

Size(a) == Len(a)
IsEmpty(a) == Len(a) = 0
First(a) == a[1]

\* the final positional token, or the empty string when there is none
LastParam(a) == IF Len(a) = 0 THEN "" ELSE a[Len(a)]

\* position (0-based, as in the code) of the first token equal to t, -1 when none
IndexOf(a, t) == FirstIndex(a, t) - 1

\* the container without the token at 0-based position i
Remove(a, i) == SubSeq(a, 1, i) \o SubSeq(a, i + 2, Len(a))

\* the token Remove returns
Removed(a, i) == a[i + 1]

\* utils.Check(err) with err # nil: the error goes to standard error and the
\* process exits
CheckFailed(msg) ==
    /\ pc' = "exited"
    /\ exitStatus' = CheckExitStatus
    /\ out' = Append(out, [stream |-> "stderr", kind |-> "error", text |-> msg])

Project == "owner/repo"
CurrentBranchName == "master"

----------------------------------------------------------------------------
(* release show *)

\* tagName := args.LastParam(); a missing tag goes through utils.Check
showReleaseTag ==
    /\ handler = "showRelease" /\ pc = "start"
    /\ tagName' = LastParam(args)
    /\ IF LastParam(args) = ""
       THEN CheckFailed("Missing argument TAG")
       ELSE /\ pc' = "localRepo"
            /\ UNCHANGED <<exitStatus, out>>
    /\ UNCHANGED <<inputs, args, calls, commitish, title, body, editor,
                   editorFile, release, deferred, idx>>

showReleaseLocalRepo ==
    /\ handler = "showRelease" /\ pc = "localRepo"
    /\ calls' = Append(calls, [op |-> "LocalRepo"])
    /\ \E ok \in BOOLEAN :
         IF ok THEN pc' = "project" /\ UNCHANGED <<exitStatus, out>>
         ELSE CheckFailed("LocalRepo")
    /\ UNCHANGED <<inputs, locals, args>>

showReleaseProject ==
    /\ handler = "showRelease" /\ pc = "project"
    /\ \E ok \in BOOLEAN :
         IF ok
         THEN /\ calls' = calls \o <<[op |-> "MainProject"], [op |-> "NewClient"]>>
              /\ pc' = "fetch"
              /\ UNCHANGED <<exitStatus, out>>
         ELSE /\ calls' = Append(calls, [op |-> "MainProject"])
              /\ CheckFailed("MainProject")
    /\ UNCHANGED <<inputs, locals, args>>

\* what showRelease prints for a fetched release
ShownRelease(hasBody, hasZipball) ==
    <<[stream |-> "stdout", kind |-> "release", tag |-> tagName]>>
    \o (IF hasBody THEN <<[stream |-> "stdout", kind |-> "body", tag |-> tagName]>>
        ELSE <<>>)
    \o (IF flagReleaseShowDownloads
        THEN <<[stream |-> "stdout", kind |-> "downloads", tag |-> tagName]>>
             \o (IF hasZipball
                 THEN <<[stream |-> "stdout", kind |-> "zipball", tag |-> tagName]>>
                 ELSE <<>>)
        ELSE <<>>)

showReleaseFetch ==
    /\ handler = "showRelease" /\ pc = "fetch"
    /\ IF noop
       THEN /\ out' = Append(out, [stream |-> "stdout", kind |-> "wouldDisplay",
                                   tag |-> tagName])
            /\ pc' = "exited" /\ exitStatus' = ExitSuccess
            /\ UNCHANGED calls
       ELSE /\ calls' = Append(calls, [op |-> "FetchRelease", tag |-> tagName])
            /\ \E ok \in BOOLEAN :
                 IF ok
                 THEN /\ \E hasBody \in BOOLEAN, hasZipball \in BOOLEAN :
                            out' = out \o ShownRelease(hasBody, hasZipball)
                      /\ pc' = "exited" /\ exitStatus' = ExitSuccess
                 ELSE CheckFailed("FetchRelease")
    /\ UNCHANGED <<inputs, locals, args>>

----------------------------------------------------------------------------
(* release create *)

\* readMsg: the first line is the title, the rest the description
readMsg(message) ==
    LET parts == SplitN2(message, NL)
    IN  [title |-> parts[1],
         body  |-> IF Len(parts) > 1 THEN parts[2] ELSE EmptyText]

\* what ioutil.ReadFile can give for a path: no file has the empty name
FileTexts == {EmptyText, <<"F", NL, "G">>}
ReadFile(path) ==
    {[err |-> TRUE, text |-> EmptyText]}
    \cup (IF path = EmptyText THEN {}
          ELSE {[err |-> FALSE, text |-> t] : t \in FileTexts})

\* what the user can leave in the editor
EditorTitles == {EmptyText, <<"E">>}

\* the branch of the if / else if / else over the message flags
MessageSource ==
    IF flagReleaseMessage # EmptyText THEN "message"
    ELSE IF flagReleaseFile # EmptyText THEN "file"
    ELSE "editor"

\* the argument createRelease hands to readMsgFromFile
FileReaderPath == flagReleaseMessage

createReleaseTag ==
    /\ handler = "createRelease" /\ pc = "start"
    /\ tagName' = LastParam(args)
    /\ IF LastParam(args) = ""
       THEN CheckFailed("Missing argument TAG")
       ELSE /\ pc' = "localRepo"
            /\ UNCHANGED <<exitStatus, out>>
    /\ UNCHANGED <<inputs, args, calls, commitish, title, body, editor,
                   editorFile, release, deferred, idx>>

createReleaseLocalRepo ==
    /\ handler = "createRelease" /\ pc = "localRepo"
    /\ calls' = Append(calls, [op |-> "LocalRepo"])
    /\ \E ok \in BOOLEAN :
         IF ok THEN pc' = "project" /\ UNCHANGED <<exitStatus, out>>
         ELSE CheckFailed("LocalRepo")
    /\ UNCHANGED <<inputs, locals, args>>

createReleaseProject ==
    /\ handler = "createRelease" /\ pc = "project"
    /\ \E ok \in BOOLEAN :
         IF ok
         THEN /\ calls' = calls \o <<[op |-> "CurrentProject"], [op |-> "NewClient"]>>
              /\ pc' = "commitish"
              /\ UNCHANGED <<exitStatus, out>>
         ELSE /\ calls' = Append(calls, [op |-> "CurrentProject"])
              /\ CheckFailed("CurrentProject")
    /\ UNCHANGED <<inputs, locals, args>>

createReleaseCommitish ==
    /\ handler = "createRelease" /\ pc = "commitish"
    /\ IF flagReleaseCommitish # ""
       THEN /\ commitish' = flagReleaseCommitish
            /\ pc' = "message"
            /\ UNCHANGED <<calls, exitStatus, out>>
       ELSE /\ calls' = Append(calls, [op |-> "CurrentBranch"])
            /\ \E ok \in BOOLEAN :
                 IF ok
                 THEN /\ commitish' = CurrentBranchName
                      /\ pc' = "message"
                      /\ UNCHANGED <<exitStatus, out>>
                 ELSE /\ CheckFailed("CurrentBranch")
                      /\ UNCHANGED commitish
    /\ UNCHANGED <<inputs, args, tagName, title, body, editor, editorFile,
                   release, deferred, idx>>

\* -m MESSAGE
createReleaseReadMsg ==
    /\ handler = "createRelease" /\ pc = "message"
    /\ MessageSource = "message"
    /\ title' = readMsg(flagReleaseMessage).title
    /\ body' = readMsg(flagReleaseMessage).body
    /\ pc' = "title"
    /\ UNCHANGED <<inputs, args, calls, exitStatus, out, tagName, commitish,
                   editor, editorFile, release, deferred, idx>>

\* -f FILE
createReleaseReadFile ==
    /\ handler = "createRelease" /\ pc = "message"
    /\ MessageSource = "file"
    /\ calls' = Append(calls, [op |-> "readMsgFromFile", path |-> FileReaderPath])
    /\ \E r \in ReadFile(FileReaderPath) :
         IF r.err
         THEN /\ CheckFailed("readMsgFromFile")
              /\ UNCHANGED <<title, body>>
         ELSE /\ title' = readMsg(r.text).title
              /\ body' = readMsg(r.text).body
              /\ pc' = "title"
              /\ UNCHANGED <<exitStatus, out>>
    /\ UNCHANGED <<inputs, args, tagName, commitish, editor, editorFile,
                   release, deferred, idx>>

\* neither: the release template is rendered for the editor
createReleaseTemplate ==
    /\ handler = "createRelease" /\ pc = "message"
    /\ MessageSource = "editor"
    /\ calls' = Append(calls, [op |-> "CommentChar"])
    /\ \E ok \in BOOLEAN :
         IF ok THEN pc' = "newEditor" /\ UNCHANGED <<exitStatus, out>>
         ELSE CheckFailed("renderReleaseTpl")
    /\ UNCHANGED <<inputs, locals, args>>

\* editor, err := github.NewEditor(...): the := declares a new `editor` in the
\* else block; the function-level `editor` keeps its zero value
createReleaseNewEditor ==
    /\ handler = "createRelease" /\ pc = "newEditor"
    /\ calls' = Append(calls, [op |-> "NewEditor"])
    /\ \E ok \in BOOLEAN :
         IF ok
         THEN /\ editorFile' = "present"
              /\ pc' = "edit"
              /\ UNCHANGED <<exitStatus, out>>
         ELSE /\ CheckFailed("NewEditor")
              /\ UNCHANGED editorFile
    /\ UNCHANGED <<inputs, args, tagName, commitish, title, body, editor,
                   release, deferred, idx>>

createReleaseEdit ==
    /\ handler = "createRelease" /\ pc = "edit"
    /\ \E ok \in BOOLEAN, t \in EditorTitles :
         /\ calls' = Append(calls, [op |-> "EditTitleAndBody"])
         /\ IF ok
            THEN /\ title' = t
                 /\ body' = EmptyText
                 /\ pc' = "title"
                 /\ UNCHANGED <<exitStatus, out>>
            ELSE /\ CheckFailed("EditTitleAndBody")
                 /\ UNCHANGED <<title, body>>
    /\ UNCHANGED <<inputs, args, tagName, commitish, editor, editorFile,
                   release, deferred, idx>>

createReleaseTitle ==
    /\ handler = "createRelease" /\ pc = "title"
    /\ IF title = EmptyText
       THEN CheckFailed("Aborting release due to empty release title")
       ELSE pc' = "create" /\ UNCHANGED <<exitStatus, out>>
    /\ UNCHANGED <<inputs, locals, args, calls>>

\* params := &github.Release{...}
ReleaseParams ==
    [TagName |-> tagName, TargetCommitish |-> commitish, Name |-> title,
     Body |-> body, Draft |-> flagReleaseDraft,
     Prerelease |-> flagReleasePrerelease]

\* ui.Printf("Would create release `%s' for %s with tag name `%s'\n", ...)
wouldCreateLine ==
    [stream |-> "stdout", kind |-> "wouldCreate", title |-> title,
     project |-> Project, tag |-> tagName]

\* the hosting API calls of the creation step, by the no-op latch; ok is
\* whether the call returned without an error
releaseCalls(n, ok) ==
    IF n THEN <<>>
    ELSE <<[op |-> "CreateRelease", project |-> Project,
            params |-> ReleaseParams, ok |-> ok]>>

\* if editor != nil { defer editor.DeleteFile() }
deferDeleteFile ==
    IF editor # "nil" THEN Append(deferred, "editor.DeleteFile") ELSE deferred

createReleaseCreate ==
    /\ handler = "createRelease" /\ pc = "create"
    /\ IF noop
       THEN /\ calls' = calls \o releaseCalls(noop, TRUE)
            /\ out' = Append(out, wouldCreateLine)
            /\ pc' = "upload"
            /\ UNCHANGED <<exitStatus, release, deferred>>
       ELSE \E ok \in BOOLEAN :
              /\ calls' = calls \o releaseCalls(noop, ok)
              /\ IF ok
                 THEN /\ release' = "created"
                      /\ deferred' = deferDeleteFile
                      /\ out' = Append(out, [stream |-> "stdout", kind |-> "htmlUrl"])
                      /\ pc' = "upload"
                      /\ UNCHANGED exitStatus
                 ELSE /\ CheckFailed("CreateRelease")
                      /\ UNCHANGED <<release, deferred>>
    /\ UNCHANGED <<inputs, args, tagName, commitish, title, body, editor,
                   editorFile, idx>>

\* parts := strings.SplitN(asset, "#", 2): file name and label of one -a value
AssetParts_LastHash(asset) ==
    LET hashes == {i \in 1..Len(asset) : asset[i] = "#"}
        i == IF hashes = {} THEN 0
             ELSE CHOOSE k \in hashes : \A j \in hashes : j <= k
    IN  IF i = 0 THEN [file |-> asset, label |-> EmptyText]
        ELSE [file |-> SubSeq(asset, 1, i-1),
              label |-> SubSeq(asset, i+1, Len(asset))]

AssetParts(asset) ==
    LET parts == SplitN2(asset, "#")
    IN  [file  |-> parts[1],
         label |-> IF Len(parts) > 1 THEN parts[2] ELSE EmptyText]

\* what uploadAssets prints for one asset
attachLine(n, file, label) ==
    IF n
    THEN IF label = EmptyText
         THEN [stream |-> "stderr", kind |-> "wouldAttach", file |-> file,
               label |-> EmptyText]
         ELSE [stream |-> "stderr", kind |-> "wouldAttachLabel", file |-> file,
               label |-> label]
    ELSE [stream |-> "stderr", kind |-> "attaching", file |-> file,
          label |-> EmptyText]

\* the hosting API calls uploadAssets makes for one asset, by the no-op latch;
\* ok is whether the call returned without an error
attachCalls_IgnoreNoop(n, rel, file, label, ok) ==
    <<[op |-> "UploadReleaseAsset", release |-> rel, file |-> file,
       label |-> label, ok |-> ok]>>

attachCalls(n, rel, file, label, ok) ==
    IF n THEN <<>>
    ELSE <<[op |-> "UploadReleaseAsset", release |-> rel, file |-> file,
            label |-> label, ok |-> ok]>>

\* one iteration of uploadAssets' loop with the result of the upload dropped
uploadAssetsStep_Unchecked ==
    /\ handler = "createRelease" /\ pc = "upload"
    /\ idx <= Len(flagReleaseAssets)
    /\ LET a == AssetParts(flagReleaseAssets[idx])
       IN  /\ out' = Append(out, attachLine(noop, a.file, a.label))
           /\ \E ok \in BOOLEAN :
                calls' = calls \o attachCalls(noop, release, a.file, a.label, ok)
    /\ idx' = idx + 1
    /\ UNCHANGED <<inputs, args, pc, exitStatus, tagName, commitish, title,
                   body, editor, editorFile, release, deferred>>

\* one iteration of uploadAssets' loop
uploadAssetsStep ==
    /\ handler = "createRelease" /\ pc = "upload"
    /\ idx <= Len(flagReleaseAssets)
    /\ LET a == AssetParts(flagReleaseAssets[idx])
       IN  IF noop
           THEN /\ calls' = calls \o attachCalls(noop, release, a.file, a.label, TRUE)
                /\ out' = Append(out, attachLine(noop, a.file, a.label))
                /\ idx' = idx + 1
                /\ UNCHANGED <<pc, exitStatus>>
           ELSE \E ok \in BOOLEAN :
                  /\ calls' = calls \o attachCalls(noop, release, a.file, a.label, ok)
                  /\ IF ok
                     THEN /\ out' = Append(out, attachLine(noop, a.file, a.label))
                          /\ idx' = idx + 1
                          /\ UNCHANGED <<pc, exitStatus>>
                     ELSE /\ pc' = "exited"
                          /\ exitStatus' = CheckExitStatus
                          /\ out' = out \o <<attachLine(noop, a.file, a.label),
                                             [stream |-> "stderr", kind |-> "error",
                                              text |-> "UploadReleaseAsset"]>>
                          /\ UNCHANGED idx
    /\ UNCHANGED <<inputs, args, tagName, commitish, title, body, editor,
                   editorFile, release, deferred>>

\* os.Exit(0) after uploadAssets returns; os.Exit runs no deferred call
createReleaseExit ==
    /\ handler = "createRelease" /\ pc = "upload"
    /\ idx > Len(flagReleaseAssets)
    /\ pc' = "exited"
    /\ exitStatus' = ExitSuccess
    /\ UNCHANGED <<inputs, locals, args, calls, out>>

----------------------------------------------------------------------------
(* remote *)

\* the URLs the hosting collaborator may return
Urls == {"git://github.com/o/r.git", "git@github.com:o/r.git"}

\* the container after parseRemotePrivateFlag, and what it returns
parseRemotePrivateFlag(a) ==
    LET i == IndexOf(a, "-p")
    IN  IF i # -1 THEN [args |-> Remove(a, i), private |-> TRUE]
        ELSE [args |-> a, private |-> FALSE]

\* the owner token transformRemoteArgs takes off the container
remoteOwner(a) ==
    LET p == parseRemotePrivateFlag(a)
    IN  Removed(p.args, Size(p.args) - 1)

\* the container after transformRemoteArgs, url being what ExpandRemoteUrl gave
transformRemoteArgs_UrlFirst(a, url) ==
    LET p == parseRemotePrivateFlag(a)
    IN  Remove(p.args, Size(p.args) - 1) \o <<url, remoteOwner(a)>>

transformRemoteArgs(a, url) ==
    LET p == parseRemotePrivateFlag(a)
    IN  Remove(p.args, Size(p.args) - 1) \o <<remoteOwner(a), url>>

remote ==
    /\ handler = "remote" /\ pc = "start"
    /\ IF Size(args) >= 2 /\ (First(args) = "add" \/ First(args) = "set-url")
       THEN \E url \in Urls :
              /\ args' = transformRemoteArgs(args, url)
              /\ calls' = calls \o
                   <<[op |-> "ExpandRemoteUrl", owner |-> remoteOwner(args),
                      private |-> parseRemotePrivateFlag(args).private,
                      ret |-> url],
                     [op |-> "git.SysExec", argv |-> <<"remote">> \o args']>>
       ELSE /\ args' = args
            /\ calls' = Append(calls, [op |-> "git.SysExec",
                                       argv |-> <<"remote">> \o args])
    /\ \E ok \in BOOLEAN :
         IF ok THEN pc' = "forwarded" /\ UNCHANGED <<exitStatus, out>>
         ELSE CheckFailed("git.SysExec")
    /\ UNCHANGED <<inputs, locals>>

----------------------------------------------------------------------------
(* help *)

\* All(): every registered command
All == Branching \o Remote \o GitHub

\* {{if .Runnable}}{{if .List}}: whether the usage template prints a command
Listed_IgnoresList(c) == c.runnable

Listed(c) == c.runnable /\ c.list

\* one category of the usage template: the heading, then the commands it prints
usageCategory(cat, cmds) ==
    LET shown == SelectSeq(cmds, Listed)
    IN  <<[stream |-> "stdout", kind |-> "heading", cat |-> cat, name |-> ""]>>
        \o [i \in 1..Len(shown) |->
              [stream |-> "stdout", kind |-> "command", cat |-> cat,
               name |-> shown[i].name]]

\* what PrintUsage writes
usageTemplate ==
    usageCategory("Branching", Branching)
    \o usageCategory("Remote", Remote)
    \o usageCategory("GitHub", GitHub)

\* Usage(): PrintUsage, then os.Exit(2)
Usage ==
    /\ out' = out \o usageTemplate
    /\ pc' = "exited"
    /\ exitStatus' = UsageExitStatus

\* PrintUsage() followed by runHelp's plain return
PrintUsageAndReturn ==
    /\ out' = out \o usageTemplate
    /\ pc' = "returned"
    /\ UNCHANGED exitStatus

runHelp ==
    /\ handler = "runHelp" /\ pc = "start"
    /\ IF IsEmpty(args)
       THEN PrintUsageAndReturn
       ELSE IF Size(args) # 1
       THEN /\ out' = Append(out, [stream |-> "stderr", kind |-> "fatal",
                                   cat |-> "", name |-> "too many arguments"])
            /\ pc' = "exited"
            /\ exitStatus' = LogFatalStatus
       ELSE IF \E i \in 1..Len(All) : All[i].name = First(args)
       THEN /\ out' = Append(out, [stream |-> "stdout", kind |-> "commandUsage",
                                   cat |-> "", name |-> First(args)])
            /\ pc' = "returned"
            /\ UNCHANGED exitStatus
       ELSE /\ out' = Append(out, [stream |-> "stderr", kind |-> "unknownTopic",
                                   cat |-> "", name |-> First(args)])
            /\ pc' = "exited"
            /\ exitStatus' = UsageExitStatus
    /\ UNCHANGED <<inputs, locals, args, calls>>

----------------------------------------------------------------------------
(* Initial states: one dispatched handler with its inputs *)

Range(s) == {s[i] : i \in 1..Len(s)}

InjectiveSeqs(S, n) ==
    {s \in SeqsUpTo(S, n) : \A i, j \in 1..Len(s) : i # j => s[i] # s[j]}

\* positional remainders of release show / release create
ReleaseArgs == {<<>>, <<"v1.0">>, <<"extra", "v1.0">>}

\* values of -m
Messages == {EmptyText, <<"T">>, <<"T", NL, "B">>, <<NL, "B">>}

\* values of -f
Files == {EmptyText, <<"n">>}

\* values of -c
Commitishes == {"", "abc123"}

\* values of -a
AssetValues == {<<"a">>, <<"b", "#", "l">>, <<"c", "#", "l", "#", "m">>, <<"d", "#">>}

RemoteTokens == {"add", "set-url", "-p", "jingweno", "origin"}

HelpTokens == {"a", "zz"}

\* command nodes: name, whether Run is set, whether the node is listed
Nodes ==
    {[name |-> "a", runnable |-> TRUE, list |-> TRUE],
     [name |-> "b", runnable |-> TRUE, list |-> TRUE],
     [name |-> "c", runnable |-> TRUE, list |-> FALSE],
     [name |-> "d", runnable |-> FALSE, list |-> TRUE]}

\* registries: three category lists, every node registered at most once
Registries ==
    LET L == InjectiveSeqs(Nodes, MaxPerCategory)
    IN  {r \in L \X L \X L :
           /\ Range(r[1]) \cap Range(r[2]) = {}
           /\ Range(r[1]) \cap Range(r[3]) = {}
           /\ Range(r[2]) \cap Range(r[3]) = {}}

InitLocals ==
    /\ pc = "start"
    /\ exitStatus = 0
    /\ args = args0
    /\ tagName = ""
    /\ commitish = ""
    /\ title = EmptyText
    /\ body = EmptyText
    /\ editor = "nil"
    /\ editorFile = "none"
    /\ release = "nil"
    /\ deferred = <<>>
    /\ idx = 1
    /\ calls = <<>>
    /\ out = <<>>

NoReleaseFlags ==
    /\ flagReleaseDraft = FALSE
    /\ flagReleasePrerelease = FALSE
    /\ flagReleaseMessage = EmptyText
    /\ flagReleaseFile = EmptyText
    /\ flagReleaseCommitish = ""
    /\ flagReleaseAssets = <<>>

NoRegistry ==
    /\ Branching = <<>>
    /\ Remote = <<>>
    /\ GitHub = <<>>

InitShowRelease ==
    /\ handler = "showRelease"
    /\ args0 \in ReleaseArgs
    /\ noop \in BOOLEAN
    /\ flagReleaseShowDownloads \in BOOLEAN
    /\ NoReleaseFlags
    /\ NoRegistry

InitCreateRelease ==
    /\ handler = "createRelease"
    /\ args0 \in ReleaseArgs
    /\ noop \in BOOLEAN
    /\ flagReleaseShowDownloads = FALSE
    /\ flagReleaseDraft \in BOOLEAN
    /\ flagReleasePrerelease \in BOOLEAN
    /\ flagReleaseMessage \in Messages
    /\ flagReleaseFile \in Files
    /\ flagReleaseCommitish \in Commitishes
    /\ flagReleaseAssets \in SeqsUpTo(AssetValues, MaxAssets)
    /\ NoRegistry

InitRemote ==
    /\ handler = "remote"
    /\ args0 \in SeqsUpTo(RemoteTokens, MaxArgs)
    /\ noop = FALSE
    /\ flagReleaseShowDownloads = FALSE
    /\ NoReleaseFlags
    /\ NoRegistry

InitHelp ==
    /\ handler = "runHelp"
    /\ args0 \in SeqsUpTo(HelpTokens, MaxArgs)
    /\ noop = FALSE
    /\ flagReleaseShowDownloads = FALSE
    /\ NoReleaseFlags
    /\ \E r \in Registries :
         /\ Branching = r[1]
         /\ Remote = r[2]
         /\ GitHub = r[3]

Init ==
    /\ \/ InitShowRelease
       \/ InitCreateRelease
       \/ InitRemote
       \/ InitHelp
    /\ InitLocals

Next ==
    \/ showReleaseTag
    \/ showReleaseLocalRepo
    \/ showReleaseProject
    \/ showReleaseFetch
    \/ createReleaseTag
    \/ createReleaseLocalRepo
    \/ createReleaseProject
    \/ createReleaseCommitish
    \/ createReleaseReadMsg
    \/ createReleaseReadFile
    \/ createReleaseTemplate
    \/ createReleaseNewEditor
    \/ createReleaseEdit
    \/ createReleaseTitle
    \/ createReleaseCreate
    \/ uploadAssetsStep
    \/ createReleaseExit
    \/ remote
    \/ runHelp

Spec == Init /\ [][Next]_vars

\* the same program run to completion: a handler that can take a step takes it
FairSpec == Spec /\ WF_vars(Next)

----------------------------------------------------------------------------
(* Properties *)

ApiOps == {"FetchReleases", "FetchRelease", "CreateRelease", "UploadReleaseAsset"}

CallsOf(ops) == SelectSeq(calls, LAMBDA c : c.op \in ops)
LinesOf(kinds) == SelectSeq(out, LAMBDA l : l.kind \in kinds)

\* the text of s before its first line break
FirstLine(s) ==
    IF \E i \in 1..Len(s) : s[i] = NL
    THEN SubSeq(s, 1, (CHOOSE i \in 1..Len(s) :
                          s[i] = NL /\ \A j \in 1..(i-1) : s[j] # NL) - 1)
    ELSE s

NoopCreate == handler = "createRelease" /\ noop

\* the "Would create release" line names the tag and the title of the run
WouldCreateNamesTagAndTitle ==
    LET w == LinesOf({"wouldCreate"})
    IN  /\ Len(w) = 1
        /\ w[1].stream = "stdout"
        /\ w[1].tag = LastParam(args0) /\ w[1].tag # ""
        /\ w[1].title = title /\ w[1].title # EmptyText
        /\ flagReleaseMessage # EmptyText =>
             w[1].title = FirstLine(flagReleaseMessage)

\* C1: with the no-op latch set, a run of createRelease never calls the
\* hosting API (no CreateRelease, no UploadReleaseAsset, whatever the -a
\* assets); once it is past the creation step it has printed one "Would
\* create release" line holding the tag name and the title, and from there it
\* ends with exit status 0.
C1_NoopNoApiCalls ==
    /\ [](NoopCreate => CallsOf(ApiOps) = <<>>)
    /\ [](NoopCreate /\ pc = "upload" => WouldCreateNamesTagAndTitle)
    /\ [](NoopCreate /\ pc = "exited" /\ LinesOf({"wouldCreate"}) # <<>> =>
            exitStatus = ExitSuccess /\ WouldCreateNamesTagAndTitle)
    /\ (NoopCreate /\ pc = "upload") ~> (pc = "exited" /\ exitStatus = ExitSuccess)

C1_Witness ==
    /\ NoopCreate
    /\ Len(flagReleaseAssets) = MaxAssets
    /\ pc = "exited" /\ exitStatus = ExitSuccess
    /\ LinesOf({"wouldCreate"}) # <<>>
    /\ Len(LinesOf({"wouldAttach", "wouldAttachLabel"})) = MaxAssets

\* C2: showRelease or createRelease with no positional argument left exits
\* with status 2, and no external collaborator has been invoked.
C2_MissingTagExitsWithUsageStatus ==
    (handler \in {"showRelease", "createRelease"} /\ LastParam(args0) = ""
       /\ pc # "start")
    => (pc = "exited" /\ exitStatus = UsageExitStatus /\ calls = <<>>)

\* C3: help with more than one argument exits with status 2, reports on
\* standard error and prints no listing and no command usage.
C3_TooManyArgumentsExitsWithUsageStatus ==
    (handler = "runHelp" /\ Size(args0) > 1 /\ pc # "start")
    => /\ pc = "exited" /\ exitStatus = UsageExitStatus
       /\ \E i \in 1..Len(out) : out[i].stream = "stderr"
       /\ \A i \in 1..Len(out) : out[i].stream # "stdout"

Categories == {"Branching", "Remote", "GitHub"}

CategoryList(cat) ==
    IF cat = "Branching" THEN Branching
    ELSE IF cat = "Remote" THEN Remote
    ELSE GitHub

\* the names of the commands printed under a category's heading
PrintedNames(cat) ==
    LET ls == SelectSeq(out, LAMBDA l : l.kind = "command" /\ l.cat = cat)
    IN  [i \in 1..Len(ls) |-> ls[i].name]

\* the names of a category's nodes that are marked listable, in registration
\* order
ListableNames(cat) ==
    LET ns == SelectSeq(CategoryList(cat), LAMBDA c : c.list)
    IN  [i \in 1..Len(ns) |-> ns[i].name]

\* the names of a category's nodes that have a handler and are marked
\* listable, in registration order
RunnableListableNames(cat) ==
    LET ns == SelectSeq(CategoryList(cat), LAMBDA c : c.runnable /\ c.list)
    IN  [i \in 1..Len(ns) |-> ns[i].name]

HelpListingDone == handler = "runHelp" /\ IsEmpty(args0) /\ pc # "start"

RemoteTransformed ==
    /\ handler = "remote" /\ pc # "start"
    /\ Len(args0) >= 2
    /\ args0[1] \in {"add", "set-url"}

\* the container with its first "-p" token taken out
WithoutFirstP(a) ==
    IF \E i \in 1..Len(a) : a[i] = "-p"
    THEN LET k == CHOOSE i \in 1..Len(a) :
                    a[i] = "-p" /\ \A j \in 1..(i-1) : a[j] # "-p"
         IN  [i \in 1..(Len(a) - 1) |-> IF i < k THEN a[i] ELSE a[i + 1]]
    ELSE a

\* C5: for a remote invocation of at least 2 tokens starting with add or
\* set-url, git receives the original tokens without the first -p and without
\* the then-last token (the owner), in their order, followed by the owner and
\* by the URL the hosting collaborator returned for (owner, toggle), toggle
\* being true exactly when a -p was present.
C5_RemoteContainerHandedToGit ==
    RemoteTransformed =>
        LET stripped == WithoutFirstP(args0)
            owner == stripped[Len(stripped)]
            toggle == \E i \in 1..Len(args0) : args0[i] = "-p"
        IN  /\ Len(calls) = 2
            /\ calls[1].op = "ExpandRemoteUrl"
            /\ calls[1].owner = owner
            /\ calls[1].private = toggle
            /\ calls[2].op = "git.SysExec"
            /\ calls[2].argv = <<"remote">>
                 \o SubSeq(stripped, 1, Len(stripped) - 1)
                 \o <<owner, calls[1].ret>>

C5_Witness ==
    /\ RemoteTransformed /\ pc = "forwarded"
    /\ Len(args0) = 3 /\ args0[2] = "-p" /\ args0[3] = "jingweno"
    /\ args = <<"add", "jingweno", "git@github.com:o/r.git">>

\* C9: after the transformation the container still starts with the original
\* action keyword, followed by at least two further tokens (owner, URL): the
\* owner taken off is never the action keyword.
C9_ActionKeywordStaysFirst ==
    RemoteTransformed =>
        /\ args[1] = args0[1]
        /\ Len(args) >= 3
        /\ Len(WithoutFirstP(args0)) >= 2

\* createRelease is past the step that reads the title and the description
MessageRead ==
    handler = "createRelease" /\ pc \in {"title", "create", "upload"}

EditorOps == {"CommentChar", "NewEditor", "EditTitleAndBody", "DeleteFile"}

\* C6: without -m and with -f FILE the title and the description are read
\* from FILE (the file reader is given the value of -f) and the editor is not
\* invoked; with -m neither the file reader nor the editor is used.
C6_FileReaderGetsFileFlag ==
    handler = "createRelease" =>
        /\ \A i \in 1..Len(calls) :
             calls[i].op = "readMsgFromFile" => calls[i].path = flagReleaseFile
        /\ (flagReleaseMessage = EmptyText /\ flagReleaseFile # EmptyText) =>
             /\ CallsOf(EditorOps) = <<>>
             /\ MessageRead => Len(CallsOf({"readMsgFromFile"})) = 1
        /\ flagReleaseMessage # EmptyText =>
             CallsOf({"readMsgFromFile"} \cup EditorOps) = <<>>

\* file is the text of v before its first '#' and label the text after it;
\* without a '#', file is v and the label is empty
IsFileAndLabel(v, file, label) ==
    IF \A i \in 1..Len(v) : v[i] # "#"
    THEN file = v /\ label = EmptyText
    ELSE \E i \in 1..Len(v) :
           /\ v[i] = "#"
           /\ \A j \in 1..(i-1) : v[j] # "#"
           /\ file = SubSeq(v, 1, i-1)
           /\ label = SubSeq(v, i+1, Len(v))

\* the (file, label) pairs uploadAssets has dealt with, in order: the uploads
\* of a real run, the "Would attach" lines of a no-op run
Processed ==
    IF noop THEN LinesOf({"wouldAttach", "wouldAttachLabel"})
    ELSE CallsOf({"UploadReleaseAsset"})

\* C7: uploadAssets deals with the -a values in the order given, once each,
\* taking as file name the text before the first '#' and as label the text
\* after it (empty without a '#'): what it has dealt with is always a prefix
\* of the values, which is complete when createRelease exits with status 0,
\* and every value is announced on standard error by its file name.
C7_AssetsInOrderSplitAtFirstHash ==
    handler = "createRelease" =>
        /\ Len(Processed) <= Len(flagReleaseAssets)
        /\ \A i \in 1..Len(Processed) :
             IsFileAndLabel(flagReleaseAssets[i], Processed[i].file,
                            Processed[i].label)
        /\ (pc = "exited" /\ exitStatus = ExitSuccess) =>
             Len(Processed) = Len(flagReleaseAssets)
        /\ LET said == LinesOf({"wouldAttach", "wouldAttachLabel", "attaching"})
           IN  /\ Len(said) = Len(Processed)
               /\ \A i \in 1..Len(said) : said[i].file = Processed[i].file
        /\ \A i \in 1..Len(out) :
             /\ out[i].kind = "wouldAttach" => out[i].label = EmptyText
             /\ out[i].kind = "wouldAttachLabel" => out[i].label # EmptyText

C7_Witness ==
    /\ handler = "createRelease" /\ ~noop
    /\ flagReleaseAssets = << <<"a">>, <<"b", "#", "l">> >>
    /\ pc = "exited" /\ exitStatus = ExitSuccess
    /\ Len(Processed) = 2
    /\ Processed[1].file = <<"a">> /\ Processed[1].label = EmptyText
    /\ Processed[2].file = <<"b">> /\ Processed[2].label = <<"l">>

\* C8: in a run of createRelease without the no-op latch, CreateRelease is
\* called at most once; every UploadReleaseAsset call comes after a
\* CreateRelease call that succeeded and is made on the created release; a
\* failed CreateRelease or UploadReleaseAsset call is the last collaborator
\* call of the run, which has ended with a nonzero status (no retry, no
\* further upload, no call undoing the release); there is at most one upload
\* per -a value.
C8_UploadsFollowOneCreateAndStopAtFailure ==
    (handler = "createRelease" /\ ~noop) =>
        /\ Len(CallsOf({"CreateRelease"})) <= 1
        /\ \A i \in 1..Len(calls) :
             calls[i].op = "UploadReleaseAsset" =>
               /\ \E j \in 1..(i-1) :
                    calls[j].op = "CreateRelease" /\ calls[j].ok
               /\ calls[i].release = "created"
        /\ \A i \in 1..Len(calls) :
             (calls[i].op \in {"CreateRelease", "UploadReleaseAsset"}
                /\ ~calls[i].ok) =>
               /\ i = Len(calls)
               /\ pc = "exited" /\ exitStatus # ExitSuccess
        /\ \A i, j \in 1..Len(calls) :
             (calls[i].op = "CreateRelease" /\ i < j) =>
               calls[j].op = "UploadReleaseAsset"
        /\ Len(CallsOf({"UploadReleaseAsset"})) <= Len(flagReleaseAssets)

C8_Witness ==
    /\ handler = "createRelease" /\ ~noop
    /\ Len(flagReleaseAssets) = MaxAssets
    /\ pc = "exited" /\ exitStatus = CheckExitStatus
    /\ Len(CallsOf({"UploadReleaseAsset"})) = 1
    /\ ~calls[Len(calls)].ok
    /\ calls[Len(calls)].op = "UploadReleaseAsset"

\* C10: a run of createRelease without the no-op latch that composed the
\* title in the editor (neither -m nor -f) and exits with status 0 has run
\* editor.DeleteFile: the editor's message file is gone.
C10_EditorFileDeletedAtExit ==
    (handler = "createRelease" /\ ~noop
       /\ flagReleaseMessage = EmptyText /\ flagReleaseFile = EmptyText
       /\ pc = "exited" /\ exitStatus = ExitSuccess)
    => /\ CallsOf({"DeleteFile"}) # <<>>
       /\ editorFile = "deleted"
=============================================================================
